---- MODULE Spec2Model ----
(***************************************************************************)
(* A model of matchzoo/data_generator/data_generator.py: DataGenerator,    *)
(* the batch index table it builds in _set_indices and the batch access    *)
(* of __getitem__.                                                         *)
(*                                                                         *)
(* The data pack is represented by its number of instances; an instance is *)
(* identified by its index.  Python lists are sequences (position p of a   *)
(* list is element p + 1 of the sequence).                                 *)
(***************************************************************************)
EXTENDS Integers, Sequences, FiniteSets, TLC

VARIABLES
    pc,             \* "init": inside __init__, before line 38 (_batch_indices is None);
                    \* "ready": constructed; "failed": __init__ raised
    num_instances,  \* len(self._data_pack)
    batch_size,     \* self._batch_size
    shuffle,        \* self._shuffle
    batch_indices,  \* self._batch_indices (<<>> while it is None)
    last_call,      \* the most recent call on the generator or its data pack
    raised,         \* the exception that call raised, "none" when it returned
    mat_calls,      \* the index lists that call handed to _get_batch_of_transformed_samples
    returned,       \* the rows of the batch that call returned (<<>> when none)
    len_value,      \* the value that call returned when it was len()
    served,         \* per batch position, the index list handed out for it since the
                    \* table was last built (NotServed when none)
    variant,        \* the class of the generator
    data_pack_text, \* text_left and text_right of every instance of self._data_pack
    returned_text,  \* the text columns of the batch that call returned
    mat_log,        \* the steps _get_batch_of_transformed_samples took in that call
    upsample_arg,   \* the rows and text columns that call passed to upsample
    frame,          \* the locals of a _set_indices call that is under way
    loop            \* the position of the training loop that consumes the generator

vars == <<pc, num_instances, batch_size, shuffle, batch_indices, last_call,
          raised, mat_calls, returned, len_value, served,
          variant, data_pack_text, returned_text, mat_log, upsample_arg,
          frame, loop>>

-----------------------------------------------------------------------------
(* Bounds of the model *)

MaxN == 3           \* largest data pack
MaxBatch == 3       \* largest batch_size
MaxNegBatch == 2    \* batch_size ranges over -MaxNegBatch .. MaxBatch
MaxPos == 3         \* batch positions range over -MaxPos .. MaxPos
MaxSmallN == 2      \* largest data pack where every class of generator is explored

BatchSizes == (0 - MaxNegBatch) .. MaxBatch
Positions == 0 .. MaxPos
IntItems == (0 - MaxPos) .. MaxPos
SliceBounds == -1 .. MaxPos

NotServed == <<-1>>

Min(a, b) == IF a < b THEN a ELSE b
Max(a, b) == IF a > b THEN a ELSE b

-----------------------------------------------------------------------------
(* Python primitives used by the generator *)

\* math.floor(n / b) for b # 0 -- used only as the faulty variant of MathCeil
MathFloor(n, b) ==
    IF b > 0 THEN n \div b ELSE (0 - n) \div (0 - b)

\* math.ceil(n / b) for b # 0 (line 64): the least integer >= the true quotient
MathCeil(n, b) ==
    IF b > 0 THEN 0 - ((0 - n) \div b) ELSE 0 - (n \div (0 - b))

\* len(self): __len__ (line 64) under the builtin len(), which raises
\* ZeroDivisionError from the division and ValueError for a negative __len__
PyLen(n, b) ==
    IF b = 0 THEN [err |-> "ZeroDivisionError", val |-> 0]
    ELSE IF MathCeil(n, b) < 0 THEN [err |-> "ValueError", val |-> 0]
    ELSE [err |-> "none", val |-> MathCeil(n, b)]

\* a slice bound clamped into 0 .. n, a negative bound counting from the end
ClampBound(x, n) == IF x < 0 THEN Max(x + n, 0) ELSE Min(x, n)

\* s[lo:hi] of a Python list
ListSlice(s, lo, hi) ==
    LET a == ClampBound(lo, Len(s))
        b == ClampBound(hi, Len(s))
    IN  IF a >= b THEN <<>> ELSE SubSeq(s, a + 1, b)

\* list(range(n))
Range(n) == [k \in 1 .. n |-> k - 1]

\* the lists np.random.permutation(n).tolist() can return
NpPermutations(n) ==
    {p \in [1 .. n -> 0 .. (n - 1)] : \A i, j \in 1 .. n : p[i] = p[j] => i = j}

\* sum(lists, []) (line 46): [] + lists[0] + lists[1] + ...
RECURSIVE SumFrom(_, _)
SumFrom(acc, lists) ==
    IF lists = <<>> THEN acc ELSE SumFrom(acc \o Head(lists), Tail(lists))

\* faulty variant of Sum: each list is put in front of the ones before it
RECURSIVE SumReversed(_)
SumReversed(lists) ==
    IF lists = <<>> THEN <<>> ELSE SumReversed(Tail(lists)) \o Head(lists)

Sum(lists) == SumFrom(<<>>, lists)

-----------------------------------------------------------------------------
(* DataGenerator *)

NoCall(op) == [op |-> op, kind |-> "none", a |-> 0, b |-> 0]

IntItem(i) == [kind |-> "int", a |-> i, b |-> 0]
SliceItem(start, stop) == [kind |-> "slice", a |-> start, b |-> stop]

\* the arguments __getitem__ is called with: an int, or slice(start, stop)
Items ==
    {IntItem(i) : i \in IntItems}
        \cup {SliceItem(x, y) : x \in SliceBounds, y \in SliceBounds}

\* faulty variant of IndexPool: the shuffle flag is ignored
IndexPoolAlwaysShuffled(n, sh) == NpPermutations(n)

\* index_pool of lines 81-84
IndexPool(n, sh) == IF sh THEN NpPermutations(n) ELSE {Range(n)}

\* faulty variant of BatchIndices: the loop runs one round too many
BatchIndicesExtraRound(index_pool, bs, count) ==
    [k \in 1 .. (count + 1) |-> ListSlice(index_pool, bs * (k - 1), bs * k)]

\* faulty variant of BatchIndices: the loop stops one round early
BatchIndicesDropLast(index_pool, bs, count) ==
    [k \in 1 .. (count - 1) |-> ListSlice(index_pool, bs * (k - 1), bs * k)]

\* the table the loop of lines 85-89 builds from index_pool in `count` rounds
BatchIndices(index_pool, bs, count) ==
    [k \in 1 .. count |-> ListSlice(index_pool, bs * (k - 1), bs * k)]

\* _set_indices (lines 74-89): the table is emptied (line 85) before len(self)
\* is evaluated (line 86), so a raising len(self) leaves it empty
SetIndices ==
    \E index_pool \in IndexPool(num_instances, shuffle) :
        LET n == PyLen(num_instances, batch_size)
        IN  /\ raised' = n.err
            /\ batch_indices' =
                   IF n.err = "none"
                   THEN BatchIndices(index_pool, batch_size, n.val)
                   ELSE <<>>
            /\ served' = [p \in Positions |-> NotServed]

\* faulty variant of ListGetItem: an int item is popped from the list
ListPop(table, item) ==
    IF item.kind = "slice"
    THEN [err |-> "none", value |-> ListSlice(table, item.a, item.b), table |-> table]
    ELSE LET i == IF item.a < 0 THEN item.a + Len(table) ELSE item.a
         IN  IF i < 0 \/ i >= Len(table)
             THEN [err |-> "IndexError", value |-> <<>>, table |-> table]
             ELSE [err |-> "none", value |-> table[i + 1],
                   table |-> SubSeq(table, 1, i) \o SubSeq(table, i + 2, Len(table))]

\* self._batch_indices[item] (lines 46 and 48): the entry or entries read, and
\* the list afterwards (reading leaves it as it was)
ListGetItem(table, item) ==
    IF item.kind = "slice"
    THEN [err |-> "none", value |-> ListSlice(table, item.a, item.b), table |-> table]
    ELSE LET i == IF item.a < 0 THEN item.a + Len(table) ELSE item.a
         IN  IF i < 0 \/ i >= Len(table)
             THEN [err |-> "IndexError", value |-> <<>>, table |-> table]
             ELSE [err |-> "none", value |-> table[i + 1], table |-> table]

\* lines 45-48: the index list of the request
Indices(item, got) == IF item.kind = "slice" THEN Sum(got) ELSE got

\* self._data_pack[indices]: the rows at `indices`; what a data pack of n
\* instances does with an index it does not hold is left open
DataPackGetItem(n, indices) ==
    IF \A k \in 1 .. Len(indices) : indices[k] < n
    THEN {[err |-> "none", rows |-> indices]}
    ELSE {[err |-> "DataPackError", rows |-> <<>>],
          [err |-> "none", rows |-> indices]}

-----------------------------------------------------------------------------
(* The data pack's text columns and the per-batch transformations *)

Variants == {"DataGenerator", "UnitDynamicDataGenerator", "DynamicDataGenerator",
             "OrigPairGeneratorUsingNewInterface", "DataGeneratorFusion"}

\* defaults of OrigPairGeneratorUsingNewInterface.__init__
OrigNumNeg == 1
OrigNumDup == 4
\* defaults of DataGeneratorFusion.__init__
FusionNumNeg == 1
FusionNumDup == 1

\* a text: the instance and column it was read from, and how many times the
\* transform function has been applied to it
RawText(side, i) == [side |-> side, id |-> i, applied |-> 0]
MissingText == [side |-> "missing", id |-> -1, applied |-> 0]

\* the text columns of a data pack of n instances nobody has written to
RawData(n) == [i \in 0 .. (n - 1) |-> [left |-> RawText("left", i),
                                       right |-> RawText("right", i)]]

\* no rows
NoRows == [rows |-> <<>>, left |-> <<>>, right |-> <<>>]

\* unit.transform / func: an opaque function of one text
Func(text) == [text EXCEPT !.applied = @ + 1]

\* self._data_pack[indices] as an object: the rows at `indices` with their
\* text columns; `shared` says that writing to it writes to the data pack
ViewOf(data, rows) ==
    [rows |-> rows,
     left |-> [k \in 1 .. Len(rows) |->
                  IF rows[k] \in DOMAIN data THEN data[rows[k]].left ELSE MissingText],
     right |-> [k \in 1 .. Len(rows) |->
                  IF rows[k] \in DOMAIN data THEN data[rows[k]].right ELSE MissingText],
     shared |-> TRUE]

\* lines 60, 99, 127: the slice is taken; dp is the object the method works on
Slice(data, n, indices) ==
    {[err |-> o.err, dp |-> ViewOf(data, o.rows), data |-> data,
      log |-> <<"slice">>, up_arg |-> NoRows] : o \in DataPackGetItem(n, indices)}

\* .copy(): an object of its own
Copy(dp) == [dp EXCEPT !.shared = FALSE]

\* faulty variant of CopyStep: the slice itself is worked on
CopyStepMissing(st) ==
    IF st.err # "none" THEN st
    ELSE [st EXCEPT !.log = Append(@, "copy")]

\* dp = self._data_pack[indices].copy() (lines 99, 113, 141)
CopyStep(st) ==
    IF st.err # "none" THEN st
    ELSE [st EXCEPT !.dp = Copy(st.dp), !.log = Append(@, "copy")]

\* the data pack after column `side` of dp was assigned `column`
WriteThrough(data, dp, side, column) ==
    IF ~ dp.shared THEN data
    ELSE [i \in DOMAIN data |->
            IF \E k \in 1 .. Len(dp.rows) : dp.rows[k] = i
            THEN LET k == CHOOSE k \in 1 .. Len(dp.rows) : dp.rows[k] = i
                 IN  IF side = "left" THEN [data[i] EXCEPT !.left = column[k]]
                     ELSE [data[i] EXCEPT !.right = column[k]]
            ELSE data[i]]

\* dp.left['text_left'] = dp.left['text_left'].apply(func) (lines 101, 114,
\* 143): func may raise on any text it is applied to
TransformLeft(st) ==
    IF st.err # "none" THEN {st}
    ELSE LET column == [k \in 1 .. Len(st.dp.left) |-> Func(st.dp.left[k])]
         IN  {[st EXCEPT !.dp.left = column,
                         !.data = WriteThrough(st.data, st.dp, "left", column),
                         !.log = Append(@, "transform_left")]}
             \cup (IF st.dp.left = <<>> THEN {}
                   ELSE {[st EXCEPT !.err = "TransformError",
                                    !.log = Append(@, "transform_left_raises")]})

\* dp.right['text_right'] = dp.right['text_right'].apply(func) (lines 102,
\* 115, 144)
TransformRight(st) ==
    IF st.err # "none" THEN {st}
    ELSE LET column == [k \in 1 .. Len(st.dp.right) |-> Func(st.dp.right[k])]
         IN  {[st EXCEPT !.dp.right = column,
                         !.data = WriteThrough(st.data, st.dp, "right", column),
                         !.log = Append(@, "transform_right")]}
             \cup (IF st.dp.right = <<>> THEN {}
                   ELSE {[st EXCEPT !.err = "TransformError",
                                    !.log = Append(@, "transform_right_raises")]})

\* a sequence with each element num_dup times
RECURSIVE Duplicated(_, _)
Duplicated(seq, num_dup) ==
    IF seq = <<>> THEN <<>>
    ELSE [k \in 1 .. num_dup |-> Head(seq)] \o Duplicated(Tail(seq), num_dup)

\* matchzoo.upsample: an opaque expansion of the rows it is given
Upsample(dp, num_dup, num_neg) ==
    [dp EXCEPT !.rows = Duplicated(dp.rows, num_dup),
               !.left = Duplicated(dp.left, num_dup),
               !.right = Duplicated(dp.right, num_dup),
               !.shared = FALSE]

\* upsample(..., num_dup=..., num_neg=...) (lines 127-129, 145-146), which may
\* raise
UpsampleStep(st, num_dup, num_neg) ==
    IF st.err # "none" THEN {st}
    ELSE {[st EXCEPT !.dp = Upsample(st.dp, num_dup, num_neg),
                     !.up_arg = [rows |-> st.dp.rows, left |-> st.dp.left,
                                 right |-> st.dp.right],
                     !.log = Append(@, "upsample")],
          [st EXCEPT !.err = "UpsampleError",
                     !.up_arg = [rows |-> st.dp.rows, left |-> st.dp.left,
                                 right |-> st.dp.right],
                     !.log = Append(@, "upsample_raises")]}

\* faulty variant of Unpack: an exception raised on the way is swallowed and
\* what there is of the batch is returned
UnpackSwallows(st) ==
    [err |-> "none", rows |-> st.dp.rows,
     text |-> [rows |-> st.dp.rows, left |-> st.dp.left, right |-> st.dp.right],
     log |-> st.log, up_arg |-> st.up_arg, data |-> st.data]

\* .unpack() and return: the outcome of the method; an exception raised on
\* the way is the outcome and nothing is returned
Unpack(st) ==
    IF st.err # "none"
    THEN [err |-> st.err, rows |-> <<>>, text |-> NoRows, log |-> st.log,
          up_arg |-> st.up_arg, data |-> st.data]
    ELSE [err |-> "none", rows |-> st.dp.rows,
          text |-> [rows |-> st.dp.rows, left |-> st.dp.left, right |-> st.dp.right],
          log |-> Append(st.log, "unpack"), up_arg |-> st.up_arg, data |-> st.data]

\* UnitDynamicDataGenerator._get_batch_of_transformed_samples (lines 98-103)
UnitGetBatch(data, n, indices) ==
    {Unpack(st) : st \in UNION {TransformRight(l) :
        l \in UNION {TransformLeft(CopyStep(v)) : v \in Slice(data, n, indices)}}}

\* DynamicDataGenerator._get_batch_of_transformed_samples (lines 112-116)
DynamicGetBatch(data, n, indices) ==
    {Unpack(st) : st \in UNION {TransformRight(l) :
        l \in UNION {TransformLeft(CopyStep(v)) : v \in Slice(data, n, indices)}}}

\* OrigPairGeneratorUsingNewInterface._get_batch_of_transformed_samples
\* (lines 126-129)
OrigPairGetBatch(data, n, indices) ==
    {Unpack(st) : st \in UNION {UpsampleStep(v, OrigNumDup, OrigNumNeg) :
        v \in Slice(data, n, indices)}}

\* faulty variant of FusionGetBatch: upsample is called before the transform
FusionUpsampleFirst(data, n, indices) ==
    {Unpack(st) : st \in UNION {TransformRight(l) :
        l \in UNION {TransformLeft(u) :
            u \in UNION {UpsampleStep(CopyStep(v), FusionNumDup, FusionNumNeg) :
                v \in Slice(data, n, indices)}}}}

\* DataGeneratorFusion._get_batch_of_transformed_samples (lines 140-146)
FusionGetBatch(data, n, indices) ==
    {Unpack(st) : st \in UNION {UpsampleStep(r, FusionNumDup, FusionNumNeg) :
        r \in UNION {TransformRight(l) :
            l \in UNION {TransformLeft(CopyStep(v)) : v \in Slice(data, n, indices)}}}}

\* DataGenerator._get_batch_of_transformed_samples (lines 51-60)
GetBatchOfTransformedSamples(data, n, indices) ==
    {Unpack(st) : st \in Slice(data, n, indices)}

\* self._get_batch_of_transformed_samples(indices) (line 49): the method of
\* the generator's class
Materialize(v, data, n, indices) ==
    CASE v = "DataGenerator" -> GetBatchOfTransformedSamples(data, n, indices)
      [] v = "UnitDynamicDataGenerator" -> UnitGetBatch(data, n, indices)
      [] v = "DynamicDataGenerator" -> DynamicGetBatch(data, n, indices)
      [] v = "OrigPairGeneratorUsingNewInterface" -> OrigPairGetBatch(data, n, indices)
      [] v = "DataGeneratorFusion" -> FusionGetBatch(data, n, indices)

\* a call that materializes nothing
NoMaterialization ==
    /\ returned_text' = NoRows
    /\ mat_log' = <<>>
    /\ upsample_arg' = NoRows
    /\ UNCHANGED <<variant, data_pack_text>>

-----------------------------------------------------------------------------
(* The operations of a generator *)

\* __init__ (lines 20-38), from line 38 on
Construct ==
    /\ pc = "init"
    /\ SetIndices
    /\ pc' = IF raised' = "none" THEN "ready" ELSE "failed"
    /\ last_call' = NoCall("init")
    /\ NoMaterialization
    /\ mat_calls' = <<>>
    /\ returned' = <<>>
    /\ len_value' = 0
    /\ UNCHANGED <<num_instances, batch_size, shuffle>>

\* __getitem__ (lines 40-49)
GetItem(item) ==
    /\ pc = "ready"
    /\ LET got == ListGetItem(batch_indices, item)
       IN  /\ batch_indices' = got.table
           /\ IF got.err # "none"
              THEN /\ raised' = got.err
                   /\ mat_calls' = <<>>
                   /\ returned' = <<>>
                   /\ served' = served
                   /\ returned_text' = NoRows
                   /\ mat_log' = <<>>
                   /\ upsample_arg' = NoRows
                   /\ data_pack_text' = data_pack_text
              ELSE LET indices == Indices(item, got.value)
                   IN  /\ mat_calls' = <<indices>>
                       /\ \E out \in Materialize(variant, data_pack_text,
                                                 num_instances, indices) :
                              /\ raised' = out.err
                              /\ returned' = out.rows
                              /\ returned_text' = out.text
                              /\ mat_log' = out.log
                              /\ upsample_arg' = out.up_arg
                              /\ data_pack_text' = out.data
                       /\ served' =
                              IF item.kind = "int" /\ item.a \in Positions
                              THEN [served EXCEPT ![item.a] = indices]
                              ELSE served
    /\ last_call' = [op |-> "getitem", kind |-> item.kind, a |-> item.a, b |-> item.b]
    /\ len_value' = 0
    /\ UNCHANGED <<pc, num_instances, batch_size, shuffle, variant>>

\* len(generator): __len__ (lines 62-64)
CallLen ==
    /\ pc = "ready"
    /\ LET n == PyLen(num_instances, batch_size)
       IN  /\ raised' = n.err
           /\ len_value' = n.val
    /\ last_call' = NoCall("len")
    /\ NoMaterialization
    /\ mat_calls' = <<>>
    /\ returned' = <<>>
    /\ UNCHANGED <<pc, num_instances, batch_size, shuffle, batch_indices, served>>

\* on_epoch_end (lines 66-68)
OnEpochEnd ==
    /\ pc = "ready"
    /\ SetIndices
    /\ last_call' = NoCall("on_epoch_end")
    /\ NoMaterialization
    /\ mat_calls' = <<>>
    /\ returned' = <<>>
    /\ len_value' = 0
    /\ UNCHANGED <<pc, num_instances, batch_size, shuffle>>

\* faulty variant of Reset: the table is kept as it is
ResetKeepsTable ==
    /\ pc = "ready"
    /\ raised' = "none"
    /\ last_call' = NoCall("reset")
    /\ NoMaterialization
    /\ mat_calls' = <<>>
    /\ returned' = <<>>
    /\ len_value' = 0
    /\ UNCHANGED <<pc, num_instances, batch_size, shuffle, batch_indices, served>>

\* reset (lines 70-72)
Reset ==
    /\ pc = "ready"
    /\ SetIndices
    /\ last_call' = NoCall("reset")
    /\ NoMaterialization
    /\ mat_calls' = <<>>
    /\ returned' = <<>>
    /\ len_value' = 0
    /\ UNCHANGED <<pc, num_instances, batch_size, shuffle>>

\* the caller adds instances to, or removes instances from, the data pack the
\* generator holds a reference to
Resize(n) ==
    /\ pc = "ready"
    /\ n # num_instances
    /\ num_instances' = n
    /\ last_call' = NoCall("resize")
    /\ data_pack_text' = [i \in 0 .. (n - 1) |->
                              IF i \in DOMAIN data_pack_text THEN data_pack_text[i]
                              ELSE RawData(n)[i]]
    /\ returned_text' = NoRows
    /\ mat_log' = <<>>
    /\ upsample_arg' = NoRows
    /\ UNCHANGED variant
    /\ raised' = "none"
    /\ mat_calls' = <<>>
    /\ returned' = <<>>
    /\ len_value' = 0
    /\ UNCHANGED <<pc, batch_size, shuffle, batch_indices, served>>

\* no _set_indices call is under way
NoFrame == [active |-> FALSE, op |-> "none", index_pool |-> <<>>, stop |-> 0, i |-> 0]

\* the training loop is between epochs
NoLoop == [phase |-> "idle", len |-> 0, pos |-> 0, handed |-> <<>>]

\* a step in which no _set_indices call is under way and the training loop
\* does not move
Whole == frame = NoFrame /\ UNCHANGED <<frame, loop>>

\* DataGenerator(data_pack, batch_size, shuffle) has run lines 33-37
Init ==
    /\ pc = "init"
    /\ num_instances \in 0 .. MaxN
    /\ batch_size \in BatchSizes
    /\ shuffle \in BOOLEAN
    /\ batch_indices = <<>>
    /\ last_call = NoCall("new")
    /\ raised = "none"
    /\ mat_calls = <<>>
    /\ returned = <<>>
    /\ len_value = 0
    /\ served = [p \in Positions |-> NotServed]
    /\ variant = "DataGenerator"
    /\ data_pack_text = RawData(num_instances)
    /\ returned_text = NoRows
    /\ mat_log = <<>>
    /\ upsample_arg = NoRows
    /\ frame = NoFrame
    /\ loop = NoLoop

\* the calls on a generator, one at a time
Next ==
    \/ Construct /\ Whole
    \/ \E item \in Items : GetItem(item) /\ Whole
    \/ CallLen /\ Whole
    \/ OnEpochEnd /\ Whole
    \/ Reset /\ Whole

\* the generator over a data pack that keeps its size
Spec == Init /\ [][Next]_vars

NextResize ==
    \/ Next
    \/ \E n \in 0 .. MaxN : Resize(n) /\ Whole

\* the generator over a data pack whose owner changes its size
SpecResize == Init /\ [][NextResize]_vars

\* a generator of any of the classes, over a small data pack
InitAnyClass ==
    /\ pc = "init"
    /\ num_instances \in 0 .. MaxSmallN
    /\ batch_size \in BatchSizes
    /\ shuffle \in BOOLEAN
    /\ batch_indices = <<>>
    /\ last_call = NoCall("new")
    /\ raised = "none"
    /\ mat_calls = <<>>
    /\ returned = <<>>
    /\ len_value = 0
    /\ served = [p \in Positions |-> NotServed]
    /\ variant \in Variants
    /\ data_pack_text = RawData(num_instances)
    /\ returned_text = NoRows
    /\ mat_log = <<>>
    /\ upsample_arg = NoRows
    /\ frame = NoFrame
    /\ loop = NoLoop

\* the requests made of it: every position of the largest table, one position
\* past it, and the slices from the first position
ClassItems ==
    {IntItem(i) : i \in 0 .. MaxSmallN}
        \cup {SliceItem(0, y) : y \in 1 .. MaxSmallN}

NextAnyClass ==
    \/ Construct /\ Whole
    \/ \E item \in ClassItems : GetItem(item) /\ Whole
    \/ CallLen /\ Whole
    \/ OnEpochEnd /\ Whole
    \/ Reset /\ Whole

SpecAnyClass == InitAnyClass /\ [][NextAnyClass]_vars

-----------------------------------------------------------------------------
(* The training loop: len() once, every batch in order, on_epoch_end *)

\* the loop reads len(generator)
TrainLen ==
    /\ loop.phase = "idle"
    /\ CallLen
    /\ raised' = "none"
    /\ loop' = [phase |-> "batches", len |-> len_value', pos |-> 0, handed |-> <<>>]
    /\ frame = NoFrame
    /\ UNCHANGED frame

\* the loop asks for the next batch
TrainBatch ==
    /\ loop.phase = "batches"
    /\ loop.pos < loop.len
    /\ GetItem(IntItem(loop.pos))
    /\ loop' = [loop EXCEPT !.pos = @ + 1,
                            !.handed = @ \o Sum(mat_calls')]
    /\ frame = NoFrame
    /\ UNCHANGED frame

\* the loop has asked for every batch and signals the end of the epoch
TrainEpochEnd ==
    /\ loop.phase = "batches"
    /\ loop.pos = loop.len
    /\ OnEpochEnd
    /\ loop' = NoLoop
    /\ frame = NoFrame
    /\ UNCHANGED frame

\* a generator with a batch_size >= 1
InitTrain ==
    /\ Init
    /\ batch_size >= 1

NextTrain ==
    \/ Construct /\ Whole
    \/ TrainLen
    \/ TrainBatch
    \/ TrainEpochEnd

\* the generator driven by the training loop alone
SpecTrain == InitTrain /\ [][NextTrain]_vars

-----------------------------------------------------------------------------
(* _set_indices step by step, with calls of a second caller in between *)

\* faulty variant of LoopContinues: the loop stops one round early
LoopStopsEarly(i, stop) == i < stop - 1

\* for i in range(len(self)) (line 86): another round follows
LoopContinues(i, stop) == i < stop

\* on_epoch_end or reset enters _set_indices: lines 80-86 up to the first
\* round of the loop; the table is empty from line 85 on
BeginSetIndices(op) ==
    /\ pc = "ready"
    /\ ~ frame.active
    /\ \E index_pool \in IndexPool(num_instances, shuffle) :
           LET n == PyLen(num_instances, batch_size)
           IN  /\ raised' = n.err
               /\ frame' = IF n.err = "none"
                           THEN [active |-> TRUE, op |-> op, index_pool |-> index_pool,
                                 stop |-> n.val, i |-> 0]
                           ELSE NoFrame
    /\ batch_indices' = <<>>
    /\ served' = [p \in Positions |-> NotServed]
    /\ last_call' = NoCall(op)
    /\ mat_calls' = <<>>
    /\ returned' = <<>>
    /\ len_value' = 0
    /\ NoMaterialization
    /\ UNCHANGED <<pc, num_instances, batch_size, shuffle, loop>>

\* one round of the loop (lines 87-89)
AppendBatch ==
    /\ frame.active
    /\ LoopContinues(frame.i, frame.stop)
    /\ LET lower == batch_size * frame.i
           upper == batch_size * (frame.i + 1)
       IN  batch_indices' = Append(batch_indices, ListSlice(frame.index_pool, lower, upper))
    /\ frame' = [frame EXCEPT !.i = @ + 1]
    /\ UNCHANGED <<pc, num_instances, batch_size, shuffle, last_call, raised,
                   mat_calls, returned, len_value, served, variant, data_pack_text,
                   returned_text, mat_log, upsample_arg, loop>>

\* the loop is over and on_epoch_end or reset returns
EndSetIndices ==
    /\ frame.active
    /\ ~ LoopContinues(frame.i, frame.stop)
    /\ frame' = NoFrame
    /\ last_call' = NoCall(frame.op)
    /\ raised' = "none"
    /\ mat_calls' = <<>>
    /\ returned' = <<>>
    /\ len_value' = 0
    /\ NoMaterialization
    /\ UNCHANGED <<pc, num_instances, batch_size, shuffle, batch_indices, served, loop>>

\* a generator over a small data pack
InitStepwise ==
    /\ Init
    /\ num_instances <= MaxSmallN

NextStepwise ==
    \/ Construct /\ Whole
    \/ \E op \in {"on_epoch_end", "reset"} : BeginSetIndices(op)
    \/ AppendBatch
    \/ EndSetIndices
    \/ \E item \in Items : GetItem(item) /\ UNCHANGED <<frame, loop>>
    \/ CallLen /\ UNCHANGED <<frame, loop>>

\* the generator with two callers whose calls are not serialized
SpecStepwise == InitStepwise /\ [][NextStepwise]_vars

-----------------------------------------------------------------------------
(* Properties *)

\* the index lists of a table, one after the other in table order
RECURSIVE Concat(_)
Concat(table) ==
    IF Len(table) = 0 THEN <<>>
    ELSE Concat(SubSeq(table, 1, Len(table) - 1)) \o table[Len(table)]

\* ceil(n / b) for n >= 0, b >= 1: the least k with k * b >= n
CeilOf(n, b) == CHOOSE k \in 0 .. n : k * b >= n /\ (k - 1) * b < n

\* the entries of `table` at the positions lo, lo + 1, ..., hi - 1 that it has,
\* one after the other
RECURSIVE ConcatRange(_, _, _)
ConcatRange(table, lo, hi) ==
    IF lo >= hi THEN <<>>
    ELSE (IF lo >= 0 /\ lo < Len(table) THEN table[lo + 1] ELSE <<>>)
             \o ConcatRange(table, lo + 1, hi)

\* a position counted from the end of the table when it is negative
FromEnd(x, table) == IF x < 0 THEN x + Len(table) ELSE x

IsPermutationOfRange(c, n) ==
    /\ Len(c) = n
    /\ \A k \in 1 .. Len(c) : c[k] \in 0 .. (n - 1)
    /\ \A x \in 0 .. (n - 1) : Cardinality({k \in 1 .. Len(c) : c[k] = x}) = 1

\* C1: for batch_size >= 1, len() returns ceil(N / batch_size): the least k
\* with k * batch_size >= N; it returns 0 when N = 0
C1_LengthIsCeil ==
    (last_call.op = "len" /\ batch_size >= 1) =>
        /\ raised = "none"
        /\ len_value >= 0
        /\ len_value * batch_size >= num_instances
        /\ (len_value - 1) * batch_size < num_instances
        /\ (num_instances = 0 => len_value = 0)

C1_Witness ==
    /\ last_call.op = "len"
    /\ num_instances = 3
    /\ batch_size = 2
    /\ len_value = 2

\* C2: in every state of a constructed generator the index lists of the
\* table, concatenated in table order, are a permutation of [0, N)
C2_TableIsPermutation ==
    pc = "ready" => IsPermutationOfRange(Concat(batch_indices), num_instances)

\* C3: with shuffle off and batch_size >= 1 the table has ceil(N / batch_size)
\* entries and entry i is i * batch_size, ..., min((i + 1) * batch_size, N) - 1,
\* after construction and after every on_epoch_end and reset
C3_IdentityTable ==
    (pc = "ready" /\ ~shuffle /\ batch_size >= 1) =>
        /\ Len(batch_indices) = CeilOf(num_instances, batch_size)
        /\ \A i \in 0 .. (Len(batch_indices) - 1) :
               LET lower == i * batch_size
                   upper == Min((i + 1) * batch_size, num_instances)
               IN  batch_indices[i + 1] = [k \in 1 .. (upper - lower) |-> lower + k - 1]

C3_Witness ==
    /\ last_call.op = "on_epoch_end"
    /\ ~shuffle
    /\ num_instances = 3
    /\ batch_size = 2
    /\ batch_indices = <<<<0, 1>>, <<2>>>>

\* C4: for batch_size >= 1 every entry of the table but the last has batch_size
\* indices, the last has N mod batch_size when that is not 0 and batch_size
\* otherwise; no entry is empty or longer than batch_size
C4_EntryLengths ==
    (pc = "ready" /\ batch_size >= 1) =>
        \A k \in 1 .. Len(batch_indices) :
            /\ Len(batch_indices[k]) =
                   IF k < Len(batch_indices) \/ num_instances % batch_size = 0
                   THEN batch_size
                   ELSE num_instances % batch_size
            /\ Len(batch_indices[k]) >= 1
            /\ Len(batch_indices[k]) <= batch_size

C4_Witness ==
    /\ pc = "ready"
    /\ shuffle
    /\ num_instances = 3
    /\ batch_size = 2
    /\ Len(batch_indices) = 2
    /\ Len(batch_indices[1]) = 2
    /\ Len(batch_indices[2]) = 1

\* C5: a __getitem__ call leaves the table as it was, and a position that was
\* served an index list is served the same list again as long as the table
\* has not been rebuilt
C5_GetItemReadOnly ==
    [][/\ last_call'.op = "getitem" => batch_indices' = batch_indices
       /\ \A p \in Positions :
              (served[p] # NotServed /\ served'[p] # NotServed) =>
                  served'[p] = served[p]]_vars

C5_Witness ==
    /\ last_call = [op |-> "getitem", kind |-> "int", a |-> 0, b |-> 0]
    /\ shuffle
    /\ Len(batch_indices) = 3
    /\ served[0] # NotServed
    /\ served[1] # NotServed
    /\ served[2] # NotServed
    /\ mat_calls = <<served[0]>>

\* C6: a slice request hands the materializer one index list, in one call: the
\* index lists of the entries at the positions from start up to stop, in
\* table order
C6_SliceConcatenates ==
    (last_call.op = "getitem" /\ last_call.kind = "slice") =>
        /\ Len(mat_calls) = 1
        /\ mat_calls[1] =
               ConcatRange(batch_indices, FromEnd(last_call.a, batch_indices),
                           FromEnd(last_call.b, batch_indices))

C6_Witness ==
    /\ last_call = [op |-> "getitem", kind |-> "slice", a |-> 0, b |-> 2]
    /\ shuffle
    /\ Len(batch_indices) = 3
    /\ mat_calls = <<batch_indices[1] \o batch_indices[2]>>
    /\ batch_indices[1] # <<0>>

\* C7: a single-index request with a position outside [0, len()) raises
\* IndexError, without a call of the materializer and without a batch
C7_OutOfRangeRaises ==
    (/\ last_call.op = "getitem"
     /\ last_call.kind = "int"
     /\ (last_call.a < 0 \/ last_call.a >= PyLen(num_instances, batch_size).val)) =>
        /\ raised = "IndexError"
        /\ mat_calls = <<>>
        /\ returned = <<>>

\* C8: the construction of a generator with batch_size < 1 fails
C8_BadBatchSizeFails ==
    (batch_size < 1 /\ pc # "init") => pc = "failed"

C10_NoStaleAccess ==
    (/\ last_call.op = "getitem"
     /\ last_call.kind = "int"
     /\ mat_calls # <<>>
     /\ batch_size >= 1) =>
        Len(Concat(batch_indices)) = num_instances

\* the chunks of b consecutive elements of the sequence p, for b >= 1
ChunksOf(p, b) ==
    [k \in 1 .. CeilOf(Len(p), b) |->
        [j \in 1 .. (Min(k * b, Len(p)) - (k - 1) * b) |-> p[(k - 1) * b + j]]]

\* the tables a fresh partition of n instances in batches of b can be
FreshTables(n, b, sh) ==
    IF b < 1 THEN {<<>>}
    ELSE {ChunksOf(p, b) : p \in (IF sh THEN NpPermutations(n) ELSE {Range(n)})}

\* C11: from every state of a constructed generator reset and on_epoch_end
\* have the same possible outcomes (every fresh table of the same N,
\* batch_size and shuffle flag, and nothing else), and both leave the data
\* pack's size, batch_size and the shuffle flag as they were
C11_ResetLikeEpochEnd ==
    pc = "ready" =>
        /\ \A t \in FreshTables(num_instances, batch_size, shuffle) :
               /\ ENABLED (Reset /\ batch_indices' = t /\ raised' = "none")
               /\ ENABLED (OnEpochEnd /\ batch_indices' = t /\ raised' = "none")
        /\ ~ ENABLED (Reset /\ (batch_indices' \notin
                         FreshTables(num_instances, batch_size, shuffle)
                         \/ raised' # "none"))
        /\ ~ ENABLED (OnEpochEnd /\ (batch_indices' \notin
                         FreshTables(num_instances, batch_size, shuffle)
                         \/ raised' # "none"))
        /\ ~ ENABLED (Reset /\ ~ UNCHANGED <<num_instances, batch_size, shuffle, pc>>)
        /\ ~ ENABLED (OnEpochEnd /\ ~ UNCHANGED <<num_instances, batch_size, shuffle, pc>>)

C11_Witness ==
    /\ last_call.op = "reset"
    /\ variant = "DataGeneratorFusion"
    /\ shuffle
    /\ num_instances = 2
    /\ batch_size = 1
    /\ batch_indices = <<<<1>>, <<0>>>>

\* a collaborator raised in the course of the steps `log`
CollaboratorRaised(log) ==
    \E k \in 1 .. Len(log) :
        log[k] \in {"transform_left_raises", "transform_right_raises", "upsample_raises"}

\* C12: when the transform or upsample raises during a __getitem__ call, the
\* call raises that error and returns nothing, the table and the data pack
\* are as before the call, and a position that was served an index list
\* before is served the same list afterwards
C12_AllOrNothing ==
    [][/\ (last_call'.op = "getitem" /\ CollaboratorRaised(mat_log')) =>
              /\ raised' = IF mat_log'[Len(mat_log')] = "upsample_raises"
                           THEN "UpsampleError" ELSE "TransformError"
              /\ returned' = <<>>
              /\ returned_text' = NoRows
              /\ batch_indices' = batch_indices
              /\ data_pack_text' = data_pack_text
       /\ \A p \in Positions :
              (served[p] # NotServed /\ served'[p] # NotServed /\ raised # "none") =>
                  served'[p] = served[p]]_vars

C12_Witness ==
    /\ variant = "DataGeneratorFusion"
    /\ last_call = [op |-> "getitem", kind |-> "int", a |-> 0, b |-> 0]
    /\ raised = "UpsampleError"
    /\ mat_log = <<"slice", "copy", "transform_left", "transform_right", "upsample_raises">>
    /\ returned = <<>>
    /\ served[0] # NotServed
    /\ num_instances = 2

\* the classes that apply a transform function
Transforming == {"UnitDynamicDataGenerator", "DynamicDataGenerator", "DataGeneratorFusion"}

\* C13: in every class of generator the text of every instance of the data
\* pack stays what it was, while the batch a transforming class returns holds
\* the transformed text
C13_DataPackUntouched ==
    /\ data_pack_text = RawData(num_instances)
    /\ (last_call.op = "getitem" /\ raised = "none" /\ variant \in Transforming) =>
           \A k \in 1 .. Len(returned) :
               /\ returned_text.left[k] = Func(RawText("left", returned[k]))
               /\ returned_text.right[k] = Func(RawText("right", returned[k]))

C13_Witness ==
    /\ variant = "UnitDynamicDataGenerator"
    /\ last_call = [op |-> "getitem", kind |-> "int", a |-> 0, b |-> 0]
    /\ raised = "none"
    /\ num_instances = 2
    /\ batch_size = 1
    /\ returned = <<1>>
    /\ returned_text.left = <<[side |-> "left", id |-> 1, applied |-> 1]>>
    /\ data_pack_text[1].left = [side |-> "left", id |-> 1, applied |-> 0]
    /\ data_pack_text[0].left = [side |-> "left", id |-> 0, applied |-> 0]

\* C14: a DataGeneratorFusion request slices, copies, transforms the left and
\* the right texts and only then calls upsample, which receives the
\* transformed text of every row of the slice; unpack comes last
C14_TransformBeforeUpsample ==
    (/\ variant = "DataGeneratorFusion"
     /\ last_call.op = "getitem"
     /\ \E k \in 1 .. Len(mat_log) : mat_log[k] \in {"upsample", "upsample_raises"}) =>
        /\ SubSeq(mat_log, 1, 4) = <<"slice", "copy", "transform_left", "transform_right">>
        /\ mat_log[5] \in {"upsample", "upsample_raises"}
        /\ (raised = "none" => mat_log[6] = "unpack" /\ Len(mat_log) = 6)
        /\ upsample_arg.rows = mat_calls[1]
        /\ \A k \in 1 .. Len(upsample_arg.rows) :
               /\ upsample_arg.left[k] = Func(RawText("left", upsample_arg.rows[k]))
               /\ upsample_arg.right[k] = Func(RawText("right", upsample_arg.rows[k]))

C14_Witness ==
    /\ variant = "DataGeneratorFusion"
    /\ last_call = [op |-> "getitem", kind |-> "int", a |-> 0, b |-> 0]
    /\ raised = "none"
    /\ mat_log = <<"slice", "copy", "transform_left", "transform_right", "upsample", "unpack">>
    /\ upsample_arg.rows = <<1, 0>>
    /\ upsample_arg.left = <<[side |-> "left", id |-> 1, applied |-> 1],
                             [side |-> "left", id |-> 0, applied |-> 1]>>

\* C15 as stated: over an empty data pack every __getitem__ call, for an int or
\* for a slice, raises IndexError
C15_AnyGetItemRaises ==
    (pc = "ready" /\ num_instances = 0 /\ last_call.op = "getitem") =>
        raised = "IndexError"

\* C15: over an empty data pack len() is 0 and every __getitem__ call for an
\* int raises IndexError without a call of the materializer; a call for a
\* slice does not raise: it hands the materializer the empty index list
C15_EmptyDataPack ==
    (pc = "ready" /\ num_instances = 0) =>
        /\ last_call.op = "len" => (raised = "none" /\ len_value = 0)
        /\ (last_call.op = "getitem" /\ last_call.kind = "int") =>
               (raised = "IndexError" /\ mat_calls = <<>> /\ returned = <<>>)
        /\ (last_call.op = "getitem" /\ last_call.kind = "slice") =>
               (raised = "none" /\ mat_calls = << <<>> >> /\ returned = <<>>)

C15_Witness ==
    /\ num_instances = 0
    /\ batch_size = 3
    /\ last_call = [op |-> "getitem", kind |-> "int", a |-> 0, b |-> 0]
    /\ raised = "IndexError"

\* C16 as stated: for every N >= 0 and batch_size > N the table has exactly
\* one entry, of N indices
C16_OneChunk ==
    (pc = "ready" /\ batch_size > num_instances) =>
        /\ Len(batch_indices) = 1
        /\ Len(batch_indices[1]) = num_instances

\* C16: for every N >= 1 and batch_size > N the table has exactly one entry,
\* of N indices; for N = 0 the table is empty
C16_OneChunkUnlessEmpty ==
    (pc = "ready" /\ batch_size > num_instances) =>
        IF num_instances = 0 THEN batch_indices = <<>>
        ELSE /\ Len(batch_indices) = 1
             /\ Len(batch_indices[1]) = num_instances

C16_Witness ==
    /\ pc = "ready"
    /\ shuffle
    /\ num_instances = 2
    /\ batch_size = 3
    /\ batch_indices = << <<1, 0>> >>

\* C17: under the training loop every __getitem__ call returns, no instance
\* index is handed to the materializer twice within an epoch, and when the
\* loop has asked for all len() batches every index of [0, N) was handed over
\* exactly once
C17_EpochCoversEveryInstance ==
    /\ last_call.op = "getitem" => raised = "none"
    /\ loop.phase = "batches" =>
           /\ \A j, k \in 1 .. Len(loop.handed) :
                  loop.handed[j] = loop.handed[k] => j = k
           /\ \A k \in 1 .. Len(loop.handed) : loop.handed[k] \in 0 .. (num_instances - 1)
           /\ loop.pos = loop.len => IsPermutationOfRange(loop.handed, num_instances)

C17_Witness ==
    /\ loop.phase = "batches"
    /\ loop.len = 2
    /\ loop.pos = 2
    /\ shuffle
    /\ num_instances = 3
    /\ loop.handed = <<2, 0, 1>>
    /\ last_call = [op |-> "getitem", kind |-> "int", a |-> 1, b |-> 0]

\* C18: while a _set_indices call is under way the table can have fewer than
\* len() entries, and only then: whenever no _set_indices call is under way
\* the table has len() entries, a request for a position in [0, len()) that
\* raised IndexError was made while one was under way, and so was a slice
\* request that was handed fewer indices than the table holds at its positions
C18_ShortTableOnlyWhileRebuilding ==
    pc = "ready" =>
        /\ ~ frame.active => Len(batch_indices) = PyLen(num_instances, batch_size).val
        /\ (/\ last_call.op = "getitem"
            /\ last_call.kind = "int"
            /\ last_call.a >= 0
            /\ last_call.a < PyLen(num_instances, batch_size).val
            /\ raised = "IndexError") => frame.active
        /\ (/\ last_call.op = "getitem"
            /\ last_call.kind = "slice"
            /\ Len(mat_calls[1]) <
                   Len(ConcatRange(batch_indices, FromEnd(last_call.a, batch_indices),
                                   FromEnd(last_call.b, batch_indices)))) => frame.active

C18_Witness ==
    /\ frame.active
    /\ frame.stop = 2
    /\ Len(batch_indices) = 1
    /\ last_call = [op |-> "getitem", kind |-> "int", a |-> 1, b |-> 0]
    /\ raised = "IndexError"
    /\ PyLen(num_instances, batch_size).val = 2

====
